---- MODULE Spec2Model ----
(***************************************************************************)
(* facerec_service.py: the face catalog (faces_dict), the directory of     *)
(* persisted pictures (persistent_faces), the /faces handler (web_faces)   *)
(* and the matcher (detect_faces_in_image).                                *)
(*                                                                         *)
(* Strings are sequences of tokens (<<"a", ".", "jpg">> is "a.jpg"), so    *)
(* that the file-name functions are computed as the code computes them.    *)
(* File names are relative to persistent_faces; that directory's own path  *)
(* ("/root/faces") holds no dot, so is_picture and remove_file_ext give    *)
(* the same answer on the relative name as on the joined path.             *)
(* Embeddings are one-dimensional, in tenths: the Euclidean distance of    *)
(* two of them is the absolute difference, and the tolerance 0.6 is 6.     *)
(***************************************************************************)
EXTENDS Integers, Sequences, FiniteSets, TLC

VARIABLES
    faces_dict,   \* the global dict: id -> encoding (a function on the known ids)
    files,        \* the directory persistent_faces: file name -> picture stored
    phase,        \* "boot" before __main__ has run, then "serving" or "crashed"
    threaded,     \* does the web server run handlers concurrently
    pc,           \* per handler thread: where web_faces stands
    req,          \* per handler thread: the request it serves or served last
                  \* (n: its number in the order of arrival)
    nreq,         \* requests started so far
    log,          \* serial server only: the last two requests, each with the
                  \* catalog and directory it started from
    uploaded_faces,      \* matcher input: encodings found in the uploaded image
    rostros_a_comparar,  \* matcher input: the roster
    match_out            \* matcher output, or NoResult

vars == <<faces_dict, files, phase, threaded, pc, req, nreq, log,
          uploaded_faces, rostros_a_comparar, match_out>>

svc_vars == <<faces_dict, files, phase, threaded, pc, req, nreq, log>>
match_vars == <<uploaded_faces, rostros_a_comparar, match_out>>

----------------------------------------------------------------------------
(* Bounds and the small sets the inputs are drawn from *)

MaxInitFiles == 1      \* files in the directory when the process starts
MaxRequests == 2       \* requests a run starts
MaxQuery == 2          \* encodings found in one uploaded image
MaxRoster == 2         \* entries of one roster

Workers == {"t1", "t2"}
Ids == {<<"a">>, <<"b">>}
Exts == {"jpg", "PNG", "txt"}
FileNames == {id \o <<".", e>> : id \in Ids, e \in Exts}

\* Pictures, by what the face library finds in them.
Images == {"face1", "face2", "noface", "twofaces", "corrupt"}
\* Encodings the matcher is tried on (tenths).
Encodings == {0, 1, 6, 7}

NoId == <<"?">>
NoResult == [count |-> -1, faces |-> <<>>]

----------------------------------------------------------------------------
(* File names *)

Range(s) == {s[i] : i \in 1..Len(s)}

\* index of the last "." of s, 0 when there is none
LastDot(s) == LET D == {i \in 1..Len(s) : s[i] = "."}
              IN IF D = {} THEN 0 ELSE CHOOSE i \in D : \A j \in D : j <= i

\* str.lower, on the tokens used here
lower(t) == CASE t = "PNG" -> "png"
              [] t = "JPG" -> "jpg"
              [] OTHER -> t

image_extensions == {<<"png">>, <<"jpg">>, <<"jpeg">>, <<"gif">>}

\* '.' in filename and filename.rsplit('.', 1)[1].lower() in image_extensions
is_picture(filename) ==
    /\ "." \in Range(filename)
    /\ LET ext == SubSeq(filename, LastDot(filename) + 1, Len(filename))
       IN [i \in 1..Len(ext) |-> lower(ext[i])] \in image_extensions

\* os.path.splitext(name)[0]: cut at the last dot, unless only dots precede it
splitext_root(name) ==
    LET d == LastDot(name)
    IN IF d > 0 /\ \E i \in 1..(d - 1) : name[i] # "."
       THEN SubSeq(name, 1, d - 1)
       ELSE name

\* splitext(filename.rsplit('/', 1)[-1])[0]
remove_file_ext(filename) ==
    LET S == {i \in 1..Len(filename) : filename[i] = "/"}
        cut == IF S = {} THEN 0 ELSE CHOOSE i \in S : \A j \in S : j <= i
    IN splitext_root(SubSeq(filename, cut + 1, Len(filename)))

\* "{0}/{1}.jpg".format(persistent_faces, id), relative to persistent_faces
save_path(id) == id \o <<".", "jpg">>

\* [f for f in listdir(path) if isfile(f) and is_picture(f)]
get_all_picture_files(dir) == {f \in DOMAIN dir : is_picture(f)}

----------------------------------------------------------------------------
(* The face library, as far as the service uses it *)

\* face_recognition.face_encodings(load_image_file(image)): the encodings
\* found in the picture; decoded is FALSE when load_image_file raises
face_encodings(image) ==
    CASE image = "face1" -> [decoded |-> TRUE, faces |-> <<0>>]
      [] image = "face2" -> [decoded |-> TRUE, faces |-> <<6>>]
      [] image = "noface" -> [decoded |-> TRUE, faces |-> <<>>]
      [] image = "twofaces" -> [decoded |-> TRUE, faces |-> <<0, 6>>]
      [] OTHER -> [decoded |-> FALSE, faces |-> <<>>]

\* calc_face_encoding: the one encoding, or the exception raised
calc_face_encoding(image) ==
    LET r == face_encodings(image)
    IN IF ~r.decoded THEN [ok |-> FALSE, enc |-> -1, err |-> "decode"]
       ELSE IF Len(r.faces) > 1
            THEN [ok |-> FALSE, enc |-> -1, err |-> "more than one face"]
       ELSE IF Len(r.faces) = 0
            THEN [ok |-> FALSE, enc |-> -1, err |-> "no face"]
       ELSE [ok |-> TRUE, enc |-> r.faces[1], err |-> "none"]

----------------------------------------------------------------------------
(* Dict and directory updates *)

EmptyMap == [x \in {} |-> 0]

\* d.update({k: v}), and writing file k with content v
Put(d, k, v) == [x \in (DOMAIN d) \cup {k} |-> IF x = k THEN v ELSE d[x]]

\* d.pop(k) for a present k, and os.remove(k) for an existing file
Del(d, k) == [x \in (DOMAIN d) \ {k} |-> d[x]]

----------------------------------------------------------------------------
(* Start of the process *)

\* The directories the process may find: picture files hold any picture; what
\* a file of another kind holds is never read, so one content stands for all.
InitialDirs ==
    LET dirs == UNION {[S -> Images] :
                         S \in {T \in SUBSET FileNames : Cardinality(T) <= MaxInitFiles}}
    IN {d \in dirs : \A f \in DOMAIN d : ~is_picture(f) => d[f] = "corrupt"}

NoRequest == [n |-> 0, method |-> "NONE", id |-> NoId, file |-> "<none>", error |-> "none"]

InitService ==
    /\ faces_dict = EmptyMap
    /\ files \in InitialDirs
    /\ phase = "boot"
    /\ pc = [w \in Workers |-> "idle"]
    /\ req = [w \in Workers |-> NoRequest]
    /\ nreq = 0
    /\ log = <<>>

NoMatch ==
    /\ uploaded_faces = <<>>
    /\ rostros_a_comparar = <<>>
    /\ match_out = NoResult

\* the server handles requests in threads
Init == InitService /\ threaded = TRUE /\ NoMatch

\* the server handles one request at a time
InitSerial == InitService /\ threaded = FALSE /\ NoMatch

\* get_faces_dict: one (id, encoding) pair per picture file, made into a dict.
\* An exception of calc_face_encoding is not caught. Of two picture files with
\* the same id the one listed last wins, and listdir's order is arbitrary.
get_faces_dict_raises(dir) ==
    \E f \in get_all_picture_files(dir) : ~calc_face_encoding(dir[f]).ok

get_faces_dict_results(dir) ==
    LET pics == get_all_picture_files(dir)
        ids == {remove_file_ext(f) : f \in pics}
        last == {c \in [ids -> pics] : \A i \in ids : remove_file_ext(c[i]) = i}
    IN {[i \in ids |-> calc_face_encoding(dir[c[i]]).enc] : c \in last}

\* __main__: faces_dict = get_faces_dict(persistent_faces), then app.run
Bootstrap ==
    /\ phase = "boot"
    /\ IF get_faces_dict_raises(files)
       THEN /\ phase' = "crashed"
            /\ UNCHANGED faces_dict
       ELSE /\ phase' = "serving"
            /\ faces_dict' \in get_faces_dict_results(files)
    /\ UNCHANGED <<files, threaded, pc, req, nreq, log>>
    /\ UNCHANGED match_vars

----------------------------------------------------------------------------
(* web_faces *)

\* the one thread of a server that is not threaded
MainThread == "t1"

\* a thread may take a new request
CanStart(w) ==
    /\ phase = "serving"
    /\ pc[w] = "idle"
    /\ nreq < MaxRequests
    /\ threaded \/ w = MainThread

State == [faces_dict |-> faces_dict, files |-> files]

Push(l, r) ==
    LET e == [req |-> r, pre |-> State]
    IN IF ~threaded THEN (IF Len(l) < 2 THEN Append(l, e) ELSE <<l[2], e>>) ELSE l

\* the last logged request gets its outcome
Settle(l, r) ==
    IF ~threaded THEN [l EXCEPT ![Len(l)].req = r] ELSE l

FileParams == Images \cup {"<none>", "<noname>"}

\* extract_image, then the check of 'id': the BadRequest raised, or "none"
bad_request(file, hasId) ==
    IF file = "<none>" THEN "Missing file parameter!"
    ELSE IF file = "<noname>" THEN "Given file is invalid"
    ELSE IF ~hasId THEN "Identifier for the face was not given!"
    ELSE "none"

\* GET: the list of known ids
List(w) ==
    /\ CanStart(w)
    /\ LET r == [n |-> nreq + 1, method |-> "GET", id |-> NoId, file |-> "<none>", error |-> "none"]
       IN /\ req' = [req EXCEPT ![w] = r]
          /\ log' = Push(log, r)
    /\ nreq' = nreq + 1
    /\ UNCHANGED <<faces_dict, files, phase, threaded, pc>>
    /\ UNCHANGED match_vars

\* Reject with the id checked after file.save: a POST without an id has
\* written the upload to "None.jpg" when it is refused
Reject_saves_first(w) ==
    /\ CanStart(w)
    /\ \E m \in {"POST", "DELETE"}, file \in FileParams, id \in Ids \cup {NoId} :
         /\ bad_request(file, id # NoId) # "none"
         /\ LET r == [n |-> nreq + 1, method |-> m, id |-> id,
                      file |-> IF file \in Images THEN "<unused>" ELSE file,
                      error |-> bad_request(file, id # NoId)]
            IN /\ req' = [req EXCEPT ![w] = r]
               /\ log' = Push(log, r)
         /\ files' = IF m = "POST" /\ file \in Images
                     THEN Put(files, save_path(<<"None">>), file)
                     ELSE files
    /\ nreq' = nreq + 1
    /\ UNCHANGED <<faces_dict, phase, threaded, pc>>
    /\ UNCHANGED match_vars

\* POST or DELETE without a file or without an id: BadRequest. The request
\* is kept with the id it gave and with what stood in place of the file.
Reject(w) ==
    /\ CanStart(w)
    /\ \E m \in {"POST", "DELETE"}, file \in FileParams, id \in Ids \cup {NoId} :
         /\ bad_request(file, id # NoId) # "none"
         /\ LET r == [n |-> nreq + 1, method |-> m, id |-> id,
                      file |-> IF file \in Images THEN "<unused>" ELSE file,
                      error |-> bad_request(file, id # NoId)]
            IN /\ req' = [req EXCEPT ![w] = r]
               /\ log' = Push(log, r)
    /\ nreq' = nreq + 1
    /\ UNCHANGED <<faces_dict, files, phase, threaded, pc>>
    /\ UNCHANGED match_vars

\* POST: file.save(".../id.jpg")
AddSave(w) ==
    /\ CanStart(w)
    /\ \E id \in Ids, image \in Images :
         LET r == [n |-> nreq + 1, method |-> "POST", id |-> id, file |-> image, error |-> "pending"]
         IN /\ req' = [req EXCEPT ![w] = r]
            /\ log' = Push(log, r)
            /\ files' = Put(files, save_path(id), image)
    /\ pc' = [pc EXCEPT ![w] = "saved"]
    /\ nreq' = nreq + 1
    /\ UNCHANGED <<faces_dict, phase, threaded>>
    /\ UNCHANGED match_vars

\* AddSaveFails with the catalog updated before the save
AddSaveFails_commits(w) ==
    /\ CanStart(w)
    /\ \E id \in Ids, image \in Images :
         LET r == [n |-> nreq + 1, method |-> "POST", id |-> id, file |-> "<unused>",
                   error |-> "OSError"]
             e == calc_face_encoding(image)
         IN /\ req' = [req EXCEPT ![w] = r]
            /\ log' = Push(log, r)
            /\ faces_dict' = IF e.ok THEN Put(faces_dict, id, e.enc) ELSE faces_dict
    /\ nreq' = nreq + 1
    /\ UNCHANGED <<files, phase, threaded, pc>>
    /\ UNCHANGED match_vars

\* POST: file.save raises (the disk refuses the write); nothing is caught, and
\* the upload is never looked at
AddSaveFails(w) ==
    /\ CanStart(w)
    /\ \E id \in Ids, image \in Images :
         LET r == [n |-> nreq + 1, method |-> "POST", id |-> id, file |-> "<unused>",
                   error |-> "OSError"]
         IN /\ req' = [req EXCEPT ![w] = r]
            /\ log' = Push(log, r)
    /\ nreq' = nreq + 1
    /\ UNCHANGED <<faces_dict, files, phase, threaded, pc>>
    /\ UNCHANGED match_vars

\* AddEncode with faces_dict.setdefault: a known id keeps its encoding
AddEncode_setdefault(w) ==
    /\ pc[w] = "saved"
    /\ LET e == calc_face_encoding(req[w].file)
           r == [req[w] EXCEPT !.error = e.err]
       IN /\ faces_dict' = IF e.ok /\ req[w].id \notin DOMAIN faces_dict
                           THEN Put(faces_dict, req[w].id, e.enc)
                           ELSE faces_dict
          /\ req' = [req EXCEPT ![w] = r]
          /\ log' = Settle(log, r)
    /\ pc' = [pc EXCEPT ![w] = "idle"]
    /\ UNCHANGED <<files, phase, threaded, nreq>>
    /\ UNCHANGED match_vars

\* AddEncode behind a wait: the update is held back while another thread is
\* in the middle of a request on the same id
AddEncode_waits(w) ==
    /\ pc[w] = "saved"
    /\ \A v \in Workers \ {w} : pc[v] = "idle" \/ req[v].id # req[w].id
    /\ LET e == calc_face_encoding(req[w].file)
           r == [req[w] EXCEPT !.error = e.err]
       IN /\ faces_dict' = IF e.ok THEN Put(faces_dict, req[w].id, e.enc) ELSE faces_dict
          /\ req' = [req EXCEPT ![w] = r]
          /\ log' = Settle(log, r)
    /\ pc' = [pc EXCEPT ![w] = "idle"]
    /\ UNCHANGED <<files, phase, threaded, nreq>>
    /\ UNCHANGED match_vars

\* POST, after the save: calc_face_encoding(file), then faces_dict.update,
\* or BadRequest(exception)
AddEncode(w) ==
    /\ pc[w] = "saved"
    /\ LET e == calc_face_encoding(req[w].file)
           r == [req[w] EXCEPT !.error = e.err]
       IN /\ faces_dict' = IF e.ok THEN Put(faces_dict, req[w].id, e.enc) ELSE faces_dict
          /\ req' = [req EXCEPT ![w] = r]
          /\ log' = Settle(log, r)
    /\ pc' = [pc EXCEPT ![w] = "idle"]
    /\ UNCHANGED <<files, phase, threaded, nreq>>
    /\ UNCHANGED match_vars

\* RemovePop with faces_dict.pop(id, None): an unknown id is not an error
RemovePop_default(w) ==
    /\ CanStart(w)
    /\ \E id \in Ids, file \in Images :
         LET known == id \in DOMAIN faces_dict
             r == [n |-> nreq + 1, method |-> "DELETE", id |-> id, file |-> "<unused>",
                   error |-> "pending"]
         IN /\ req' = [req EXCEPT ![w] = r]
            /\ log' = Push(log, r)
            /\ faces_dict' = IF known THEN Del(faces_dict, id) ELSE faces_dict
            /\ pc' = [pc EXCEPT ![w] = "popped"]
    /\ nreq' = nreq + 1
    /\ UNCHANGED <<files, phase, threaded>>
    /\ UNCHANGED match_vars

\* RemovePop with faces_dict.clear() in place of the pop
RemovePop_clear(w) ==
    /\ CanStart(w)
    /\ \E id \in Ids, file \in Images :
         LET known == id \in DOMAIN faces_dict
             r == [n |-> nreq + 1, method |-> "DELETE", id |-> id, file |-> "<unused>",
                   error |-> IF known THEN "pending" ELSE "KeyError"]
         IN /\ req' = [req EXCEPT ![w] = r]
            /\ log' = Push(log, r)
            /\ faces_dict' = IF known THEN EmptyMap ELSE faces_dict
            /\ pc' = [pc EXCEPT ![w] = IF known THEN "popped" ELSE "idle"]
    /\ nreq' = nreq + 1
    /\ UNCHANGED <<files, phase, threaded>>
    /\ UNCHANGED match_vars

\* DELETE: faces_dict.pop(id), a KeyError when the id is not a key
RemovePop(w) ==
    /\ CanStart(w)
    /\ \E id \in Ids, file \in Images :
         LET known == id \in DOMAIN faces_dict
             r == [n |-> nreq + 1, method |-> "DELETE", id |-> id, file |-> "<unused>",
                   error |-> IF known THEN "pending" ELSE "KeyError"]
         IN /\ req' = [req EXCEPT ![w] = r]
            /\ log' = Push(log, r)
            /\ faces_dict' = IF known THEN Del(faces_dict, id) ELSE faces_dict
            /\ pc' = [pc EXCEPT ![w] = IF known THEN "popped" ELSE "idle"]
    /\ nreq' = nreq + 1
    /\ UNCHANGED <<files, phase, threaded>>
    /\ UNCHANGED match_vars

\* RemoveFile without the os.remove
RemoveFile_keep(w) ==
    /\ pc[w] = "popped"
    /\ LET r == [req[w] EXCEPT !.error = "none"]
       IN /\ req' = [req EXCEPT ![w] = r]
          /\ log' = Settle(log, r)
    /\ pc' = [pc EXCEPT ![w] = "idle"]
    /\ UNCHANGED <<faces_dict, files, phase, threaded, nreq>>
    /\ UNCHANGED match_vars

\* DELETE, after the pop: os.remove(".../id.jpg"), a FileNotFoundError when
\* there is no such file
RemoveFile(w) ==
    /\ pc[w] = "popped"
    /\ LET path == save_path(req[w].id)
           there == path \in DOMAIN files
           r == [req[w] EXCEPT !.error = IF there THEN "none" ELSE "FileNotFoundError"]
       IN /\ files' = IF there THEN Del(files, path) ELSE files
          /\ req' = [req EXCEPT ![w] = r]
          /\ log' = Settle(log, r)
    /\ pc' = [pc EXCEPT ![w] = "idle"]
    /\ UNCHANGED <<faces_dict, phase, threaded, nreq>>
    /\ UNCHANGED match_vars

\* RemoveFileFails with a rollback: the popped id is put back
RemoveFileFails_rollback(w) ==
    /\ pc[w] = "popped"
    /\ save_path(req[w].id) \in DOMAIN files
    /\ LET r == [req[w] EXCEPT !.error = "OSError"]
       IN /\ req' = [req EXCEPT ![w] = r]
          /\ log' = Settle(log, r)
    /\ faces_dict' = Put(faces_dict, req[w].id,
                         calc_face_encoding(files[save_path(req[w].id)]).enc)
    /\ pc' = [pc EXCEPT ![w] = "idle"]
    /\ UNCHANGED <<files, phase, threaded, nreq>>
    /\ UNCHANGED match_vars

\* DELETE, after the pop: os.remove raises although the file is there
\* (the disk refuses the delete)
RemoveFileFails(w) ==
    /\ pc[w] = "popped"
    /\ save_path(req[w].id) \in DOMAIN files
    /\ LET r == [req[w] EXCEPT !.error = "OSError"]
       IN /\ req' = [req EXCEPT ![w] = r]
          /\ log' = Settle(log, r)
    /\ pc' = [pc EXCEPT ![w] = "idle"]
    /\ UNCHANGED <<faces_dict, files, phase, threaded, nreq>>
    /\ UNCHANGED match_vars

web_faces(w) ==
    \/ List(w)
    \/ Reject(w)
    \/ AddSave(w)
    \/ AddSaveFails(w)
    \/ AddEncode(w)
    \/ RemovePop(w)
    \/ RemoveFile(w)
    \/ RemoveFileFails(w)

Next == Bootstrap \/ \E w \in Workers : web_faces(w)

Spec == Init /\ [][Next]_vars

SpecSerial == InitSerial /\ [][Next]_vars

----------------------------------------------------------------------------
(* Properties of the catalog and the directory *)

Idle == \A w \in Workers : pc[w] = "idle"

\* the picture files bootstrap would read as id's
PictureFilesOf(dir, id) == {f \in get_all_picture_files(dir) : remove_file_ext(f) = id}

ExtractionErrors == {"decode", "more than one face", "no face"}

Last == log[Len(log)]

\* C1: once bootstrap is done and no request is in flight, an id is a key of
\* the catalog iff a picture file for it exists in the directory.
C1_Coherence ==
    (phase = "serving" /\ Idle) =>
        \A id \in Ids : id \in DOMAIN faces_dict <=> PictureFilesOf(files, id) # {}

\* C2: an Add whose extraction failed leaves the catalog and the directory as
\* they were when the request arrived.
C2_FailedAddChangesNothing ==
    (log # <<>> /\ Last.req.method = "POST" /\ Last.req.error \in ExtractionErrors) =>
        State = Last.pre

\* C3: when two Adds of one id with different pictures have both succeeded, the
\* encoding in the catalog is the encoding of the picture in the id's file.
C3_ConcurrentAddsAgree ==
    \A v, w \in Workers :
        ( /\ v # w
          /\ Idle
          /\ req[v].method = "POST" /\ req[v].error = "none"
          /\ req[w].method = "POST" /\ req[w].error = "none"
          /\ req[v].id = req[w].id
          /\ req[v].file # req[w].file ) =>
        /\ req[v].id \in DOMAIN faces_dict
        /\ save_path(req[v].id) \in DOMAIN files
        /\ faces_dict[req[v].id] = calc_face_encoding(files[save_path(req[v].id)]).enc

\* C4: bootstrap always completes, and the catalog it leaves holds exactly the
\* ids of the picture files in which exactly one face is found.
C4_BootstrapCompletes ==
    /\ phase # "crashed"
    /\ (phase = "serving" /\ nreq = 0) =>
          DOMAIN faces_dict =
              {id \in Ids : \E f \in PictureFilesOf(files, id) : calc_face_encoding(files[f]).ok}

\* C5: a Remove (with its id and a file part) of an id that is not a key of the
\* catalog ends at once with a KeyError, and the step changes neither the
\* catalog nor the directory.
C5_RemoveAbsentRejected ==
    [][\A w \in Workers :
          ( /\ req'[w].n # req[w].n
            /\ req'[w].method = "DELETE"
            /\ req'[w].file = "<unused>"
            /\ req'[w].id \in Ids \ DOMAIN faces_dict ) =>
          ( /\ req'[w].error = "KeyError"
            /\ pc'[w] = "idle"
            /\ faces_dict' = faces_dict
            /\ files' = files )]_vars

\* a rejected Remove is the last request, and the id's file is on disk
C5_Witness ==
    \E w \in Workers :
        /\ Idle
        /\ req[w].n = nreq
        /\ req[w].method = "DELETE"
        /\ req[w].error = "KeyError"
        /\ save_path(req[w].id) \in DOMAIN files

\* the last two requests were a successful Add of an id the catalog did not
\* hold, then a Remove of that id (with a file part)
AddThenRemove ==
    /\ Len(log) = 2
    /\ Idle
    /\ log[1].req.method = "POST" /\ log[1].req.error = "none"
    /\ log[1].req.id \notin DOMAIN log[1].pre.faces_dict
    /\ log[2].req.method = "DELETE" /\ log[2].req.id = log[1].req.id
    /\ log[2].req.file = "<unused>"

\* C6: after a successful Add of an absent id and then a Remove of it, the id
\* is not a key; the Remove is not rejected, and unless the disk refused the
\* delete the id's file is gone; every other entry and every other file is as
\* before the Add (so an id with no picture file before has none after).
C6_AddThenRemove ==
    AddThenRemove =>
        LET id == log[1].req.id
            pre == log[1].pre
        IN /\ log[2].req.error \in {"none", "OSError"}
           /\ faces_dict = pre.faces_dict
           /\ \A f \in FileNames \ {save_path(id)} :
                 /\ f \in DOMAIN files <=> f \in DOMAIN pre.files
                 /\ f \in DOMAIN files => files[f] = pre.files[f]
           /\ log[2].req.error = "none" =>
                 /\ save_path(id) \notin DOMAIN files
                 /\ PictureFilesOf(pre.files, id) = {} => PictureFilesOf(files, id) = {}

\* the Add and the Remove both succeeded while another id stayed in the catalog
C6_Witness ==
    /\ AddThenRemove
    /\ log[2].req.error = "none"
    /\ faces_dict # EmptyMap

\* the last two requests were successful Adds of one id with different pictures
AddTwice ==
    /\ Len(log) = 2
    /\ Idle
    /\ log[1].req.method = "POST" /\ log[1].req.error = "none"
    /\ log[2].req.method = "POST" /\ log[2].req.error = "none"
    /\ log[2].req.id = log[1].req.id
    /\ log[2].req.file # log[1].req.file

DeleteErrors == {"OSError", "FileNotFoundError"}

\* C11: the step in which os.remove fails ends the Remove and touches neither
\* the catalog nor the directory (no re-insertion, no second attempt), and
\* while the server runs an id becomes a key only in the step that completes
\* an Add of that id.
C11_FailedDeleteStaysRemoved ==
    [][ /\ \A w \in Workers :
             ( /\ pc[w] = "popped"
               /\ req'[w].error \in DeleteErrors ) =>
             ( /\ pc'[w] = "idle"
               /\ faces_dict' = faces_dict
               /\ files' = files )
        /\ \A id \in Ids :
             ( /\ phase = "serving"
               /\ id \notin DOMAIN faces_dict
               /\ id \in DOMAIN faces_dict' ) =>
             \E w \in Workers :
                 /\ pc[w] = "saved" /\ pc'[w] = "idle"
                 /\ req[w].method = "POST" /\ req[w].id = id
                 /\ req'[w].error = "none" ]_vars

\* a Remove ended with a failed delete, another request came after it, and
\* the id is still not a key
C11_Witness ==
    \E w \in Workers :
        /\ Idle
        /\ req[w].method = "DELETE"
        /\ req[w].error \in DeleteErrors
        /\ req[w].n < nreq
        /\ req[w].id \notin DOMAIN faces_dict

BadRequests ==
    {"Missing file parameter!", "Given file is invalid", "Identifier for the face was not given!"}

\* C12: a Remove that arrives with an id that is a key and with no file part
\* is not rejected, and it takes the id out of the catalog.
C12_RemoveNeedsOnlyId ==
    [][\A w \in Workers :
          ( /\ req'[w].n # req[w].n
            /\ req'[w].method = "DELETE"
            /\ req'[w].id \in DOMAIN faces_dict
            /\ req'[w].file = "<none>" ) =>
          ( /\ req'[w].error \notin BadRequests
            /\ req'[w].id \notin DOMAIN faces_dict' )]_vars

\* C13: once bootstrap is done and no request is in flight, running
\* get_faces_dict over the directory as it stands raises nothing and can give
\* the catalog as it stands.
C13_Rederivable ==
    (phase = "serving" /\ Idle) =>
        /\ ~get_faces_dict_raises(files)
        /\ faces_dict \in get_faces_dict_results(files)

\* C14: no two requests on one id are in flight together, each between its
\* first and its last step.
C14_SameIdSerialized ==
    \A v, w \in Workers :
        (v # w /\ pc[v] # "idle" /\ pc[w] # "idle") => req[v].id # req[w].id

\* C16: the step in which the file write of an Add fails ends the request
\* with the error and leaves the catalog as it was.
C16_FailedSaveKeepsCatalog ==
    [][\A w \in Workers :
          ( /\ req'[w].n # req[w].n
            /\ req'[w].method = "POST"
            /\ req'[w].error = "OSError" ) =>
          ( /\ pc'[w] = "idle"
            /\ faces_dict' = faces_dict )]_vars

\* an Add of an id ended with the write error, the catalog holding another id
C16_Witness ==
    \E w \in Workers :
        /\ Idle
        /\ req[w].n = nreq
        /\ req[w].method = "POST"
        /\ req[w].error = "OSError"
        /\ req[w].id \notin DOMAIN faces_dict
        /\ faces_dict # EmptyMap

\* the request lacks the id, or is an Add and lacks the file
LacksParameter(r) ==
    /\ r.method \in {"POST", "DELETE"}
    /\ \/ r.id = NoId
       \/ r.method = "POST" /\ r.file \in {"<none>", "<noname>"}

\* C17: an Add or Remove that lacks a required parameter ends in the step it
\* arrives in, with a BadRequest, and that step changes neither the catalog
\* nor the directory.
C17_MissingParameterRejected ==
    [][\A w \in Workers :
          (req'[w].n # req[w].n /\ LacksParameter(req'[w])) =>
          ( /\ req'[w].error \in BadRequests
            /\ pc'[w] = "idle"
            /\ faces_dict' = faces_dict
            /\ files' = files )]_vars

\* an Add without its file and a Remove without its id were both refused,
\* the catalog holding an id
C17_Witness ==
    \E v, w \in Workers :
        /\ Idle
        /\ req[v].method = "POST" /\ req[v].error = "Missing file parameter!"
        /\ req[w].method = "DELETE" /\ req[w].error = "Identifier for the face was not given!"
        /\ faces_dict # EmptyMap

\* the thread takes a step of its request
Acts(w) == req'[w] # req[w] \/ pc'[w] # pc[w]

----------------------------------------------------------------------------
(* detect_faces_in_image *)

\* tolerance=0.6, in tenths
Tolerance == 6

\* face_recognition.face_distance([known], face)[0]: the Euclidean norm of the
\* difference
face_distance(known_encoding, face) ==
    IF known_encoding >= face THEN known_encoding - face ELSE face - known_encoding

\* compare_faces with a strict comparison
compare_faces_strict(known_encoding, face, tolerance) ==
    face_distance(known_encoding, face) < tolerance

\* face_recognition.compare_faces([known], face, tolerance)[0]: the library
\* returns face_distance(...) <= tolerance
compare_faces(known_encoding, face, tolerance) ==
    face_distance(known_encoding, face) <= tolerance

\* the inner loop with a break after the first hit
RECURSIVE faces_of_upload_first(_, _)
faces_of_upload_first(uploaded_face, rostros) ==
    IF rostros = <<>> THEN <<>>
    ELSE LET rostro == Head(rostros)
         IN IF compare_faces(rostro.encoding, uploaded_face, Tolerance)
            THEN <<[id |-> rostro.id,
                    dist |-> face_distance(rostro.encoding, uploaded_face)]>>
            ELSE faces_of_upload_first(uploaded_face, Tail(rostros))

\* the inner loop: for rostro in rostros_a_comparar
RECURSIVE faces_of_upload(_, _)
faces_of_upload(uploaded_face, rostros) ==
    IF rostros = <<>> THEN <<>>
    ELSE LET rostro == Head(rostros)
             hit == IF compare_faces(rostro.encoding, uploaded_face, Tolerance)
                    THEN <<[id |-> rostro.id,
                            dist |-> face_distance(rostro.encoding, uploaded_face)]>>
                    ELSE <<>>
         IN hit \o faces_of_upload(uploaded_face, Tail(rostros))

\* the outer loop: for uploaded_face in uploaded_faces
RECURSIVE faces_of_uploads(_, _)
faces_of_uploads(uploaded, rostros) ==
    IF uploaded = <<>> THEN <<>>
    ELSE faces_of_upload(Head(uploaded), rostros) \o faces_of_uploads(Tail(uploaded), rostros)

\* detect_faces_in_image counting the matches instead of the faces found
detect_faces_in_image_hits(uploaded, rostros) ==
    LET faces == faces_of_uploads(uploaded, rostros)
    IN [count |-> Len(faces), faces |-> faces]

detect_faces_in_image(uploaded, rostros) ==
    LET faces_found == Len(uploaded)
    IN [count |-> faces_found,
        faces |-> IF faces_found # 0 THEN faces_of_uploads(uploaded, rostros) ELSE <<>>]

SeqsUpTo(S, n) == UNION {[1..k -> S] : k \in 0..n}

RosterEntries == [id : Ids, encoding : Encodings]

\* the matcher alone: any upload against any roster
InitMatch ==
    /\ faces_dict = EmptyMap
    /\ files = EmptyMap
    /\ phase = "boot"
    /\ threaded = TRUE
    /\ pc = [w \in Workers |-> "idle"]
    /\ req = [w \in Workers |-> NoRequest]
    /\ nreq = 0
    /\ log = <<>>
    /\ uploaded_faces \in SeqsUpTo(Encodings, MaxQuery)
    /\ rostros_a_comparar \in SeqsUpTo(RosterEntries, MaxRoster)
    /\ match_out = NoResult

DetectFaces ==
    /\ match_out = NoResult
    /\ match_out' = detect_faces_in_image(uploaded_faces, rostros_a_comparar)
    /\ UNCHANGED <<uploaded_faces, rostros_a_comparar>>
    /\ UNCHANGED svc_vars

NextMatch == DetectFaces

SpecMatch == InitMatch /\ [][NextMatch]_vars

----------------------------------------------------------------------------
(* web_recognize and encode_face *)

\* names an upload may carry
UploadNames == {<<"u", ".", "jpg">>, <<"u", ".", "txt">>}

\* rosters get_faces_from_laravel may return
LaravelRosters ==
    { <<>>,
      <<[id |-> <<"a">>, encoding |-> 0]>>,
      <<[id |-> <<"a">>, encoding |-> 0], [id |-> <<"b">>, encoding |-> 7]>> }

\* extract_image, then the checks of web_recognize before the roster is asked
\* for: the BadRequest raised, or "none"
recognize_bad_request(file, filename, hasMatricula) ==
    IF file = "<none>" THEN "Missing file parameter!"
    ELSE IF file = "<noname>" THEN "Given file is invalid"
    ELSE IF ~hasMatricula THEN "Missing 'matricula_id' in query params"
    ELSE IF ~is_picture(filename) THEN "Given file is invalid!"
    ELSE "none"

\* POST /: the request is checked; refused, or the roster is asked for
RecognizeStart(w) ==
    /\ CanStart(w)
    /\ \E file \in FileParams, filename \in UploadNames, hasMatricula \in BOOLEAN :
         LET bad == recognize_bad_request(file, filename, hasMatricula)
             r == [n |-> nreq + 1, method |-> "POST /", id |-> NoId,
                   file |-> IF file \in Images /\ bad # "none" THEN "<unused>" ELSE file,
                   error |-> IF bad = "none" THEN "pending" ELSE bad]
         IN /\ req' = [req EXCEPT ![w] = r]
            /\ log' = Push(log, r)
            /\ pc' = [pc EXCEPT ![w] = IF bad = "none" THEN "fetching" ELSE "idle"]
    /\ nreq' = nreq + 1
    /\ UNCHANGED <<faces_dict, files, phase, threaded>>
    /\ UNCHANGED match_vars

\* POST /: get_faces_from_laravel raises (no answer, or an error status)
RecognizeFetchFails(w) ==
    /\ pc[w] = "fetching"
    /\ LET r == [req[w] EXCEPT !.file = "<unused>", !.error = "HTTPError"]
       IN /\ req' = [req EXCEPT ![w] = r]
          /\ log' = Settle(log, r)
    /\ pc' = [pc EXCEPT ![w] = "idle"]
    /\ UNCHANGED <<faces_dict, files, phase, threaded, nreq>>
    /\ UNCHANGED match_vars

\* RecognizeMatch keeping the roster it was given in the catalog
RecognizeMatch_caches(w) ==
    /\ pc[w] = "fetching"
    /\ \E rostros \in LaravelRosters :
         LET found == face_encodings(req[w].file)
             r == [req[w] EXCEPT !.file = "<unused>",
                                 !.error = IF found.decoded THEN "none" ELSE "decode"]
         IN /\ req' = [req EXCEPT ![w] = r]
            /\ log' = Settle(log, r)
            /\ faces_dict' = IF rostros = <<>> THEN faces_dict
                             ELSE Put(faces_dict, rostros[1].id, rostros[1].encoding)
            /\ IF found.decoded
               THEN /\ uploaded_faces' = found.faces
                    /\ rostros_a_comparar' = rostros
                    /\ match_out' = detect_faces_in_image(found.faces, rostros)
               ELSE UNCHANGED match_vars
    /\ pc' = [pc EXCEPT ![w] = "idle"]
    /\ UNCHANGED <<files, phase, threaded, nreq>>

\* POST /: the roster has come; detect_faces_in_image(file, rostros), whose
\* load_image_file raises on bytes that do not decode
RecognizeMatch(w) ==
    /\ pc[w] = "fetching"
    /\ \E rostros \in LaravelRosters :
         LET found == face_encodings(req[w].file)
             r == [req[w] EXCEPT !.file = "<unused>",
                                 !.error = IF found.decoded THEN "none" ELSE "decode"]
         IN /\ req' = [req EXCEPT ![w] = r]
            /\ log' = Settle(log, r)
            /\ IF found.decoded
               THEN /\ uploaded_faces' = found.faces
                    /\ rostros_a_comparar' = rostros
                    /\ match_out' = detect_faces_in_image(found.faces, rostros)
               ELSE UNCHANGED match_vars
    /\ pc' = [pc EXCEPT ![w] = "idle"]
    /\ UNCHANGED <<faces_dict, files, phase, threaded, nreq>>

web_recognize(w) ==
    \/ RecognizeStart(w)
    \/ RecognizeFetchFails(w)
    \/ RecognizeMatch(w)

\* POST /encoding: the answer is the encoding, or an error with status 400
encode_face(w) ==
    /\ CanStart(w)
    /\ \E file \in FileParams, filename \in UploadNames :
         LET bad == bad_request(file, TRUE)
             r == [n |-> nreq + 1, method |-> "POST /encoding", id |-> NoId,
                   file |-> IF file \in Images THEN "<unused>" ELSE file,
                   error |-> IF bad # "none" THEN bad
                             ELSE IF ~is_picture(filename) THEN "Invalid image"
                             ELSE calc_face_encoding(file).err]
         IN /\ req' = [req EXCEPT ![w] = r]
            /\ log' = Push(log, r)
    /\ nreq' = nreq + 1
    /\ UNCHANGED <<faces_dict, files, phase, threaded, pc>>
    /\ UNCHANGED match_vars

\* every handler of the service
NextAll ==
    \/ Bootstrap
    \/ \E w \in Workers : web_faces(w)
    \/ \E w \in Workers : web_recognize(w)
    \/ \E w \in Workers : encode_face(w)

SpecAll == Init /\ [][NextAll]_vars

SpecAllSerial == InitSerial /\ [][NextAll]_vars

\* the steps that carry a request on after its first
Continue(w) ==
    \/ AddEncode(w)
    \/ RemoveFile(w)
    \/ RemoveFileFails(w)
    \/ RecognizeFetchFails(w)
    \/ RecognizeMatch(w)

\* threads are scheduled fairly, and the calls a handler makes return
SpecLive == Init /\ [][NextAll]_vars /\ \A w \in Workers : WF_vars(Continue(w))

\* C15: a step of a List, recognition or encode request, whatever its
\* outcome, leaves the catalog and the directory as they were.
C15_ReadOnlyRequests ==
    [][\A w \in Workers :
          (Acts(w) /\ req'[w].method \in {"GET", "POST /", "POST /encoding"}) =>
          (faces_dict' = faces_dict /\ files' = files)]_vars

\* a recognition that matched and an encode that failed have run, the catalog
\* holding an id
C15_Witness ==
    /\ Idle
    /\ faces_dict # EmptyMap
    /\ log # <<>>
    /\ \E i \in 1..Len(log) :
          /\ log[i].req.method = "POST /" /\ log[i].req.error = "none"
          /\ match_out.faces # <<>>
    /\ \E i \in 1..Len(log) :
          /\ log[i].req.method = "POST /encoding"
          /\ log[i].req.error \in ExtractionErrors

----------------------------------------------------------------------------
(* Properties of the matcher *)

Matched == match_out # NoResult

Pairs == (1..Len(uploaded_faces)) \X (1..Len(rostros_a_comparar))

PairDist(p) == face_distance(rostros_a_comparar[p[2]].encoding, uploaded_faces[p[1]])

PairFace(p) == [id |-> rostros_a_comparar[p[2]].id, dist |-> PairDist(p)]

\* the pair's {id, dist} is an entry of faces
Reported(p) == \E k \in 1..Len(match_out.faces) : match_out.faces[k] = PairFace(p)

\* C8, as stated: a pair is in faces iff its distance is strictly below the
\* tolerance.
C8_StrictlyBelow ==
    Matched => \A p \in Pairs : Reported(p) <=> PairDist(p) < Tolerance

\* C8, amended: a pair is in faces iff its distance is at most the tolerance;
\* a pair at exactly the tolerance is in faces, one above it is not, one at
\* distance zero is.
C8_AtMostTolerance ==
    Matched => \A p \in Pairs : Reported(p) <=> PairDist(p) <= Tolerance

\* pairs at distance zero, at the tolerance and above it were compared
C8_Witness ==
    /\ Matched
    /\ \E p \in Pairs : PairDist(p) = Tolerance /\ Reported(p)
    /\ \E p \in Pairs : PairDist(p) > Tolerance /\ ~Reported(p)
    /\ \E p \in Pairs : PairDist(p) = 0 /\ Reported(p)

\* C9: count is the number of encodings found in the upload, whatever
\* matches; no upload encodings give count 0 and no faces, an empty roster
\* gives no faces.
C9_CountIsQueries ==
    Matched =>
        /\ match_out.count = Len(uploaded_faces)
        /\ uploaded_faces = <<>> => match_out = [count |-> 0, faces |-> <<>>]
        /\ rostros_a_comparar = <<>> => match_out.faces = <<>>

\* two faces were found and a roster was given, and nothing matched
C9_Witness ==
    /\ Matched
    /\ Len(uploaded_faces) = MaxQuery
    /\ rostros_a_comparar # <<>>
    /\ match_out.faces = <<>>

\* the pairs the library calls a match
Matching ==
    {p \in Pairs : compare_faces(rostros_a_comparar[p[2]].encoding,
                                 uploaded_faces[p[1]], Tolerance)}

\* query order, then roster order
Before(p, q) == p[1] < q[1] \/ (p[1] = q[1] /\ p[2] < q[2])

Rank(p) == Cardinality({q \in Matching : Before(q, p)}) + 1

\* C10: faces has one entry per matching pair and no other, the entry of a
\* pair standing at the pair's rank in query order, then roster order.
C10_FacesFlattened ==
    Matched =>
        /\ Len(match_out.faces) = Cardinality(Matching)
        /\ \A p \in Matching : match_out.faces[Rank(p)] = PairFace(p)

\* one roster entry matched two upload encodings, one upload encoding matched
\* two roster entries, and one pair did not match
C10_Witness ==
    /\ Matched
    /\ \E j \in 1..Len(rostros_a_comparar) :
          Cardinality({p \in Matching : p[2] = j}) >= 2
    /\ \E i \in 1..Len(uploaded_faces) :
          Cardinality({p \in Matching : p[1] = i}) >= 2
    /\ Matching # Pairs

====
